---------------------------- MODULE Spec2Model ----------------------------
(***************************************************************************)
(* Escrow trade client (client/src/escrow_client/mod.rs, client/src/main.rs)*)
(* and the nostr messaging client (common/src/nostr/mod.rs).               *)
(*                                                                         *)
(* Parties: one Buyer client, one Seller client, the coordinator and a     *)
(* third party that can address private messages to the Seller.  Every     *)
(* await point of the source is a step; the listener task that             *)
(* register_trade spawns runs as a process of its own.                     *)
(***************************************************************************)
EXTENDS Naturals, Sequences, FiniteSets, TLC

(* Bounds of the model. *)
MaxOther == 1      \* messages the third party sends
MaxRetry == 1      \* phase calls a retrying driver repeats

(***************************************************************************)
(* Data: trade modes, identities, contract, registration, payloads.        *)
(***************************************************************************)
Buyer == "Buyer"
Seller == "Seller"
TradeMode == {Buyer, Seller}

\* One client per trade mode; trade_mode is fixed at construction.
trade_mode(c) == c

Npub_Buyer == "npub_buyer"
Npub_Seller == "npub_seller"
Npub_Coordinator == "npub_coordinator"
Npub_Other == "npub_other"

\* The contract both traders agreed on (each client holds its own copy).
TradeContract ==
    [ npubkey_buyer       |-> Npub_Buyer,
      npubkey_seller      |-> Npub_Seller,
      npubkey_coordinator |-> Npub_Coordinator,
      amount              |-> 100 ]

\* NostrClient::public_key of the client's own nostr keys.
public_key(c) == IF c = Buyer THEN Npub_Buyer ELSE Npub_Seller

\* The registration the coordinator issues for the trade.
EscrowRegistration ==
    [ escrow_id_hex             |-> "abc123",
      coordinator_escrow_pubkey |-> "PKc_escrow",
      escrow_start_time         |-> 0 ]

\* A registration nobody issued for this trade (another escrow id).
ForeignRegistration ==
    [ escrow_id_hex             |-> "zzz999",
      coordinator_escrow_pubkey |-> "PKc_escrow",
      escrow_start_time         |-> 0 ]

NoRegistration == [ none |-> TRUE ]
NoToken == [ none |-> TRUE ]

\* Message contents are strings; a string is modelled by what it encodes.
\* serde_json::to_string of a TradeContract / an EscrowRegistration.
ContractJson(contract) == [ kind |-> "TradeContract", body |-> contract ]
RegistrationJson(reg) == [ kind |-> "EscrowRegistration", body |-> reg ]
\* The serialized cashu token (not JSON).
TokenString(tok) == [ kind |-> "Token", body |-> tok ]
PlainText == [ kind |-> "text", body |-> NoToken ]
NoContent == [ kind |-> "none", body |-> NoToken ]

\* serde_json::from_str::<EscrowRegistration>: only a JSON object with the
\* registration's fields parses.
ParseRegistration(content) ==
    IF content.kind = "EscrowRegistration"
      THEN [ ok |-> TRUE, val |-> content.body ]
      ELSE [ ok |-> FALSE, val |-> NoRegistration ]

\* Token Port: create_escrow_token(contract, registration).
create_escrow_token(contract, reg) ==
    TokenString([ amount                    |-> contract.amount,
                  escrow_id_hex             |-> reg.escrow_id_hex,
                  coordinator_escrow_pubkey |-> reg.coordinator_escrow_pubkey ])

\* Token Port: validate_escrow_token(message, contract, registration).
validate_escrow_token(message, contract, reg) ==
    /\ message.kind = "Token"
    /\ message.body.amount = contract.amount
    /\ message.body.escrow_id_hex = reg.escrow_id_hex
    /\ message.body.coordinator_escrow_pubkey = reg.coordinator_escrow_pubkey

(***************************************************************************)
(* Events on the relays.  wrap is what unwrap_gift_wrap finds: "dm" a      *)
(* rumor of kind PrivateDirectMessage, "other" a rumor of another kind,    *)
(* "bad" a gift wrap that cannot be unwrapped.                             *)
(***************************************************************************)
Event(from, to, wrap, content) ==
    [ from |-> from, to |-> to, wrap |-> wrap, content |-> content ]
NoEvent == Event("", "", "none", NoContent)

\* What the third party addresses to the Seller: a registration nobody
\* issued, a token that fits the trade, tokens that do not, a gift wrap that
\* holds no direct message and one that cannot be unwrapped.
OtherContents ==
    { RegistrationJson(ForeignRegistration),
      create_escrow_token(TradeContract, EscrowRegistration),
      create_escrow_token([TradeContract EXCEPT !.amount = 1], EscrowRegistration),
      create_escrow_token(TradeContract, ForeignRegistration) }
OtherEvents ==
    { Event(Npub_Other, Npub_Seller, "dm", m) : m \in OtherContents }
      \cup { Event(Npub_Other, Npub_Seller, w, PlainText) : w \in {"other", "bad"} }

(***************************************************************************)
(* Calls of receive_escrow_message: the k-th call of client c is <<c, k>>. *)
(***************************************************************************)
MaxRecv == 2 + MaxRetry
RecvIds == TradeMode \X (1..MaxRecv)
Owner(t) == t[1]

Ops == {"register_trade", "exchange_trade_token", "do_your_trade_duties"}

VARIABLES
    pc,                  \* driver position of each client
    phase,               \* phase objects a client holds: 0 Initialized .. 3 DutiesFulfilled
    escrow_contract,     \* InitEscrowClient.escrow_contract
    escrow_registration, \* RegisteredEscrowClient.escrow_registration
    escrow_token,        \* the token send_trade_token minted
    recvCalls,           \* calls of receive_escrow_message a client made
    recv,                \* each call: position, notification receiver, result
    subs,                \* active subscriptions of each client (by call)
    coord_pc,            \* coordinator: position in send_escrow_registration
    contracts,           \* coordinator: identities whose contract arrived
    otherSent,           \* messages the third party sent
    calls,               \* invocations of each operation on its phase object
    outcome,             \* how the last invocation of each operation ended
    inv,                 \* port calls within the current invocation
    validations,         \* validate_escrow_token calls made
    wire,                \* every event sent, with the calls that heard it
    retries,             \* phase calls the driver repeated
    faults               \* an injected failure, early timer or third-party message

vars == << pc, phase, escrow_contract, escrow_registration, escrow_token,
           recvCalls, recv, subs, coord_pc, contracts, otherSent, calls, outcome, inv,
           validations, wire, retries, faults >>

clientVars == << pc, phase, escrow_contract, escrow_registration, escrow_token,
                 recvCalls, calls, outcome, inv, validations,
                 retries >>

NoResult == [ kind |-> "none", ev |-> NoEvent ]
IdleCall == [ pc |-> "idle", q |-> << >>, res |-> NoResult ]
NoInv == [ sends |-> 0, receives |-> 0, mints |-> 0, validates |-> 0 ]

Init ==
    /\ pc = [ c \in TradeMode |-> "init" ]
    /\ phase = [ c \in TradeMode |-> 0 ]
    /\ escrow_contract = [ c \in TradeMode |-> TradeContract ]
    /\ escrow_registration = [ c \in TradeMode |-> NoRegistration ]
    /\ escrow_token = [ c \in TradeMode |-> NoContent ]
    /\ recvCalls = [ c \in TradeMode |-> 0 ]
    /\ recv = [ t \in RecvIds |-> IdleCall ]
    /\ subs = [ c \in TradeMode |-> {} ]
    /\ coord_pc = "wait"
    /\ contracts = {}
    /\ otherSent = 0
    /\ calls = [ c \in TradeMode |-> [ o \in Ops |-> 0 ] ]
    /\ outcome = [ c \in TradeMode |-> [ o \in Ops |-> "none" ] ]
    /\ inv = [ c \in TradeMode |-> NoInv ]
    /\ validations = {}
    /\ wire = {}
    /\ retries = 0
    /\ faults = FALSE

(***************************************************************************)
(* The relays and send_private_msg.                                        *)
(***************************************************************************)
\* Filter kind GiftWrap, #p own key, limit 0: a relay forwards only events
\* that reach it while a subscription of the addressee is active, and the
\* client's pool hands them to the notification receivers that exist.
Hears(t, ev) ==
    /\ public_key(Owner(t)) = ev.to
    /\ subs[Owner(t)] # {}
    /\ recv[t].pc = "loop"

Deliver(ev) ==
    [ t \in RecvIds |->
        IF Hears(t, ev) THEN [ recv[t] EXCEPT !.q = Append(@, ev) ] ELSE recv[t] ]

\* client.send_private_msg(to, content) returning Ok: the event is on the relays.
Publish(ev) ==
    /\ recv' = Deliver(ev)
    /\ contracts' = IF ev.to = Npub_Coordinator /\ ev.content.kind = "TradeContract"
                      THEN contracts \cup {ev.from}
                      ELSE contracts
    /\ wire' = wire \cup { [ ev |-> ev, heard |-> { t \in RecvIds : Hears(t, ev) } ] }

\* client.send_private_msg returning Err: nothing was sent.
NotPublished == UNCHANGED << recv, contracts, wire >>

(***************************************************************************)
(* NostrClient::receive_escrow_message, call t.                            *)
(***************************************************************************)
Running(t) == pc[Owner(t)] \notin {"aborted", "done"}

Result(kind, ev) == [ kind |-> kind, ev |-> ev ]

\* line 41: self.client.subscribe(..).await?
Subscribe(t) ==
    /\ recv[t].pc = "subscribe"
    /\ Running(t)
    /\ \E ok \in BOOLEAN :
         IF ok
           THEN /\ subs' = [ subs EXCEPT ![Owner(t)] = @ \cup {t} ]
                /\ recv' = [ recv EXCEPT ![t].pc = "notifications" ]
                /\ UNCHANGED faults
           ELSE /\ recv' = [ recv EXCEPT ![t].pc = "returned",
                                         ![t].res = Result("subscribe_err", NoEvent) ]
                /\ faults' = TRUE
                /\ UNCHANGED subs
    /\ UNCHANGED << clientVars, coord_pc, contracts, otherSent, wire >>

\* line 43: self.client.notifications()
Notifications(t) ==
    /\ recv[t].pc = "notifications"
    /\ Running(t)
    /\ recv' = [ recv EXCEPT ![t].pc = "loop", ![t].q = << >> ]
    /\ UNCHANGED << clientVars, subs, coord_pc, contracts, otherSent, wire, faults >>

\* lines 47-53, one notification: "continue", or the result the loop breaks with.
LoopStep(ev) ==
    CASE ev.wrap = "bad" -> Result("unwrap_err", NoEvent)
      [] ev.wrap = "dm"  -> Result("ok", ev)
      [] OTHER           -> Result("continue", NoEvent)

\* lines 45-56: notifications.recv() yields the next notification.
RecvNotification(t) ==
    /\ recv[t].pc = "loop"
    /\ Running(t)
    /\ recv[t].q # << >>
    /\ LET r == LoopStep(Head(recv[t].q)) IN
         recv' = IF r.kind = "continue"
                   THEN [ recv EXCEPT ![t].q = Tail(@) ]
                   ELSE [ recv EXCEPT ![t].pc = "unsubscribe", ![t].q = << >>,
                                      ![t].res = r ]
    /\ UNCHANGED << clientVars, subs, coord_pc, contracts, otherSent, wire, faults >>

\* Mutant: the result is returned without the unsubscribe of line 61.
Unsubscribe_Skipped(t) ==
    /\ recv[t].pc = "unsubscribe"
    /\ Running(t)
    /\ recv' = [ recv EXCEPT ![t].pc = "returned" ]
    /\ UNCHANGED << clientVars, subs, coord_pc, contracts, otherSent, wire, faults >>

\* line 61: self.client.unsubscribe(subscription_id).await; line 63: result
Unsubscribe(t) ==
    /\ recv[t].pc = "unsubscribe"
    /\ Running(t)
    /\ subs' = [ subs EXCEPT ![Owner(t)] = @ \ {t} ]
    /\ recv' = [ recv EXCEPT ![t].pc = "returned" ]
    /\ UNCHANGED << clientVars, coord_pc, contracts, otherSent, wire, faults >>

\* main returned: the runtime shuts down, a task still running is dropped at
\* its await point and the client's connections close.
DropTask(t) ==
    /\ ~Running(t)
    /\ recv[t].pc \in {"subscribe", "notifications", "loop", "unsubscribe"}
    /\ recv' = [ recv EXCEPT ![t].pc = "dropped", ![t].q = << >> ]
    /\ subs' = [ subs EXCEPT ![Owner(t)] = @ \ {t} ]
    /\ UNCHANGED << clientVars, coord_pc, contracts, otherSent, wire, faults >>

(***************************************************************************)
(* InitEscrowClient::register_trade                                        *)
(***************************************************************************)
\* The call of receive_escrow_message a client made last.
LastCall(c) == << c, recvCalls[c] >>

NewCall == [ pc |-> "subscribe", q |-> << >>, res |-> NoResult ]

\* Has the subscription of call t been made (line 41 of nostr/mod.rs passed)?
Subscribed(t) ==
    \/ recv[t].pc \in {"notifications", "loop", "unsubscribe"}
    \/ recv[t].pc = "returned" /\ recv[t].res.kind # "subscribe_err"

\* lines 43-48: the listener is spawned as a task of its own.
RegisterTrade(c) ==
    /\ pc[c] = "init"
    /\ recvCalls[c] < MaxRecv
    /\ recvCalls' = [ recvCalls EXCEPT ![c] = @ + 1 ]
    /\ recv' = [ recv EXCEPT ![<< c, recvCalls[c] + 1 >>] = NewCall ]
    /\ pc' = [ pc EXCEPT ![c] = "reg_send" ]
    /\ calls' = [ calls EXCEPT ![c]["register_trade"] = @ + 1 ]
    /\ outcome' = [ outcome EXCEPT ![c]["register_trade"] = "running" ]
    /\ inv' = [ inv EXCEPT ![c] = [ NoInv EXCEPT !.receives = 1 ] ]
    /\ UNCHANGED << phase, escrow_contract, escrow_registration, escrow_token,
                    subs, coord_pc, contracts, otherSent, validations, wire, retries, faults >>

\* Mutant: a failed send of the contract is repeated.
RegisterTradeSend_Resend(c) ==
    /\ pc[c] = "reg_send"
    /\ inv' = [ inv EXCEPT ![c].sends = @ + 1 ]
    /\ \E ok \in BOOLEAN :
         IF ok
           THEN /\ Publish(Event(public_key(c), escrow_contract[c].npubkey_coordinator,
                                 "dm", ContractJson(escrow_contract[c])))
                /\ pc' = [ pc EXCEPT ![c] = "reg_join" ]
                /\ UNCHANGED << outcome, faults >>
           ELSE /\ NotPublished
                /\ faults' = TRUE
                /\ UNCHANGED << pc, outcome >>
    /\ UNCHANGED << phase, escrow_contract, escrow_registration, escrow_token,
                    recvCalls, subs, coord_pc, otherSent, calls, validations,
                    retries >>

\* lines 50-56: the contract is serialized and sent to the coordinator;
\* a failed send returns the error (the listener task keeps running).
RegisterTradeSend(c) ==
    /\ pc[c] = "reg_send"
    /\ inv' = [ inv EXCEPT ![c].sends = @ + 1 ]
    /\ \E ok \in BOOLEAN :
         IF ok
           THEN /\ Publish(Event(public_key(c), escrow_contract[c].npubkey_coordinator,
                                 "dm", ContractJson(escrow_contract[c])))
                /\ pc' = [ pc EXCEPT ![c] = "reg_join" ]
                /\ UNCHANGED << outcome, faults >>
           ELSE /\ NotPublished
                /\ pc' = [ pc EXCEPT ![c] = "failed" ]
                /\ outcome' = [ outcome EXCEPT ![c]["register_trade"] = "err" ]
                /\ faults' = TRUE
    /\ UNCHANGED << phase, escrow_contract, escrow_registration, escrow_token,
                    recvCalls, subs, coord_pc, otherSent, calls, validations,
                    retries >>

\* Mutant: a reply that is missing or does not parse yields a default registration.
RegistrationOf_OrDefault(res) ==
    IF res.kind = "ok" /\ ParseRegistration(res.ev.content).ok
      THEN ParseRegistration(res.ev.content)
      ELSE [ ok |-> TRUE, val |-> ForeignRegistration ]

\* lines 58-59: reg_msg_fut.await?? and serde_json::from_str(..)?
RegistrationOf(res) ==
    IF res.kind = "ok"
      THEN ParseRegistration(res.ev.content)
      ELSE [ ok |-> FALSE, val |-> NoRegistration ]

\* lines 58-63: join the listener, parse its message, build the Registered phase.
RegisterTradeJoin(c) ==
    /\ pc[c] = "reg_join"
    /\ recv[LastCall(c)].pc = "returned"
    /\ LET r == RegistrationOf(recv[LastCall(c)].res) IN
         IF r.ok
           THEN /\ escrow_registration' = [ escrow_registration EXCEPT ![c] = r.val ]
                /\ phase' = [ phase EXCEPT ![c] = 1 ]
                /\ pc' = [ pc EXCEPT ![c] = "registered" ]
                /\ outcome' = [ outcome EXCEPT ![c]["register_trade"] = "ok" ]
           ELSE /\ pc' = [ pc EXCEPT ![c] = "failed" ]
                /\ outcome' = [ outcome EXCEPT ![c]["register_trade"] = "err" ]
                /\ UNCHANGED << escrow_registration, phase >>
    /\ UNCHANGED << escrow_contract, escrow_token, recvCalls, recv, subs, coord_pc,
                    contracts, otherSent, calls, inv, validations, wire, retries, faults >>

(***************************************************************************)
(* RegisteredEscrowClient::exchange_trade_token                            *)
(***************************************************************************)
\* Mutant: the error of create_escrow_token is ignored and the send goes on.
ExchangeBuyerMint_IgnoreMintError(c) ==
    /\ pc[c] = "registered"
    /\ trade_mode(c) = Buyer
    /\ calls' = [ calls EXCEPT ![c]["exchange_trade_token"] = @ + 1 ]
    /\ inv' = [ inv EXCEPT ![c] = [ NoInv EXCEPT !.mints = 1 ] ]
    /\ pc' = [ pc EXCEPT ![c] = "tok_send" ]
    /\ outcome' = [ outcome EXCEPT ![c]["exchange_trade_token"] = "running" ]
    /\ \E ok \in BOOLEAN :
         IF ok
           THEN /\ escrow_token' =
                     [ escrow_token EXCEPT
                         ![c] = create_escrow_token(escrow_contract[c],
                                                    escrow_registration[c]) ]
                /\ UNCHANGED faults
           ELSE /\ faults' = TRUE
                /\ UNCHANGED escrow_token
    /\ UNCHANGED << phase, escrow_contract, escrow_registration, recvCalls, recv,
                    subs, coord_pc, contracts, otherSent, validations, wire, retries >>

\* lines 80-83, 98-103: Buyer branch, send_trade_token mints the token.
ExchangeBuyerMint(c) ==
    /\ pc[c] = "registered"
    /\ trade_mode(c) = Buyer
    /\ calls' = [ calls EXCEPT ![c]["exchange_trade_token"] = @ + 1 ]
    /\ inv' = [ inv EXCEPT ![c] = [ NoInv EXCEPT !.mints = 1 ] ]
    /\ \E ok \in BOOLEAN :
         IF ok
           THEN /\ escrow_token' =
                     [ escrow_token EXCEPT
                         ![c] = create_escrow_token(escrow_contract[c],
                                                    escrow_registration[c]) ]
                /\ pc' = [ pc EXCEPT ![c] = "tok_send" ]
                /\ outcome' = [ outcome EXCEPT ![c]["exchange_trade_token"] = "running" ]
                /\ UNCHANGED faults
           ELSE /\ pc' = [ pc EXCEPT ![c] = "failed" ]
                /\ outcome' = [ outcome EXCEPT ![c]["exchange_trade_token"] = "err" ]
                /\ faults' = TRUE
                /\ UNCHANGED escrow_token
    /\ UNCHANGED << phase, escrow_contract, escrow_registration, recvCalls, recv,
                    subs, coord_pc, contracts, otherSent, validations, wire, retries >>

\* lines 107-112, 83-84: the token is sent to the seller; Ok yields TokenExchanged.
BuyerSendToken(c) ==
    /\ pc[c] = "tok_send"
    /\ inv' = [ inv EXCEPT ![c].sends = @ + 1 ]
    /\ \E ok \in BOOLEAN :
         IF ok
           THEN /\ Publish(Event(public_key(c), escrow_contract[c].npubkey_seller,
                                 "dm", escrow_token[c]))
                /\ phase' = [ phase EXCEPT ![c] = 2 ]
                /\ pc' = [ pc EXCEPT ![c] = "exchanged" ]
                /\ outcome' = [ outcome EXCEPT ![c]["exchange_trade_token"] = "ok" ]
                /\ UNCHANGED faults
           ELSE /\ NotPublished
                /\ pc' = [ pc EXCEPT ![c] = "failed" ]
                /\ outcome' = [ outcome EXCEPT ![c]["exchange_trade_token"] = "err" ]
                /\ faults' = TRUE
                /\ UNCHANGED phase
    /\ UNCHANGED << escrow_contract, escrow_registration, escrow_token, recvCalls,
                    subs, coord_pc, otherSent, calls, validations,
                    retries >>

\* lines 86-88, 122-127: Seller branch, receive_escrow_message is called inline.
ExchangeSellerReceive(c) ==
    /\ pc[c] = "registered"
    /\ trade_mode(c) = Seller
    /\ recvCalls[c] < MaxRecv
    /\ recvCalls' = [ recvCalls EXCEPT ![c] = @ + 1 ]
    /\ recv' = [ recv EXCEPT ![<< c, recvCalls[c] + 1 >>] = NewCall ]
    /\ pc' = [ pc EXCEPT ![c] = "tok_recv" ]
    /\ calls' = [ calls EXCEPT ![c]["exchange_trade_token"] = @ + 1 ]
    /\ outcome' = [ outcome EXCEPT ![c]["exchange_trade_token"] = "running" ]
    /\ inv' = [ inv EXCEPT ![c] = [ NoInv EXCEPT !.receives = 1 ] ]
    /\ UNCHANGED << phase, escrow_contract, escrow_registration, escrow_token,
                    subs, coord_pc, contracts, otherSent, validations, wire, retries, faults >>

\* Mutant: the result of validate_escrow_token is dropped.
TokenAccepted_Unchecked(res, contract, reg) ==
    res.kind = "ok"

\* lines 125-128 and 88: the `?` on the receive, then on validate_escrow_token.
TokenAccepted(res, contract, reg) ==
    /\ res.kind = "ok"
    /\ validate_escrow_token(res.ev.content, contract, reg)

\* lines 127-128, 88-89: the received message is validated; Ok yields TokenExchanged.
SellerValidate(c) ==
    /\ pc[c] = "tok_recv"
    /\ recv[LastCall(c)].pc = "returned"
    /\ LET res == recv[LastCall(c)].res IN
         /\ IF res.kind = "ok"
              THEN /\ validations' = validations \cup
                         { [ client       |-> c,
                             sender       |-> res.ev.from,
                             message      |-> res.ev.content,
                             contract     |-> escrow_contract[c],
                             registration |-> escrow_registration[c],
                             ok           |-> validate_escrow_token(res.ev.content,
                                                 escrow_contract[c],
                                                 escrow_registration[c]) ] }
                   /\ inv' = [ inv EXCEPT ![c].validates = @ + 1 ]
              ELSE UNCHANGED << validations, inv >>
         /\ IF TokenAccepted(res, escrow_contract[c], escrow_registration[c])
              THEN /\ phase' = [ phase EXCEPT ![c] = 2 ]
                   /\ pc' = [ pc EXCEPT ![c] = "exchanged" ]
                   /\ outcome' = [ outcome EXCEPT ![c]["exchange_trade_token"] = "ok" ]
              ELSE /\ pc' = [ pc EXCEPT ![c] = "failed" ]
                   /\ outcome' = [ outcome EXCEPT ![c]["exchange_trade_token"] = "err" ]
                   /\ UNCHANGED phase
    /\ UNCHANGED << escrow_contract, escrow_registration, escrow_token, recvCalls,
                    recv, subs, coord_pc, contracts, otherSent, calls, wire, retries, faults >>

(***************************************************************************)
(* The phase objects, by their fields (the wallet is an external port).    *)
(***************************************************************************)
\* lines 14-18
InitEscrowClient(c) ==
    [ escrow_contract |-> escrow_contract[c], trade_mode |-> trade_mode(c) ]

\* lines 67-70, built at lines 60-63
RegisteredEscrowClient(c) ==
    [ prev_state |-> InitEscrowClient(c),
      escrow_registration |-> escrow_registration[c] ]

\* lines 132-134, built at lines 84 and 89: the String send_trade_token
\* returns and the Token receive_and_validate_trade_token returns are dropped
\* at the `?` of lines 83 and 88.
TokenExchangedEscrowClient(c) ==
    [ prev_state |-> RegisteredEscrowClient(c) ]

(***************************************************************************)
(* TokenExchangedEscrowClient::do_your_trade_duties and the driver.        *)
(***************************************************************************)
\* Mutant: the duties are also offered on the Registered phase.
DoYourTradeDuties_OnRegistered(c) ==
    /\ pc[c] \in {"registered", "exchanged"}
    /\ phase' = [ phase EXCEPT ![c] = 3 ]
    /\ pc' = [ pc EXCEPT ![c] = "done" ]
    /\ calls' = [ calls EXCEPT ![c]["do_your_trade_duties"] = @ + 1 ]
    /\ outcome' = [ outcome EXCEPT ![c]["do_your_trade_duties"] = "ok" ]
    /\ UNCHANGED << escrow_contract, escrow_registration, escrow_token, recvCalls,
                    recv, subs, coord_pc, contracts, otherSent, inv, validations,
                    wire, retries, faults >>

\* Mutant: the Buyer's duties send a message (a signature) to the seller.
DoYourTradeDuties_BuyerSends(c) ==
    /\ pc[c] = "exchanged"
    /\ phase' = [ phase EXCEPT ![c] = 3 ]
    /\ pc' = [ pc EXCEPT ![c] = "done" ]
    /\ calls' = [ calls EXCEPT ![c]["do_your_trade_duties"] = @ + 1 ]
    /\ outcome' = [ outcome EXCEPT ![c]["do_your_trade_duties"] = "ok" ]
    /\ IF trade_mode(c) = Buyer
         THEN Publish(Event(public_key(c), escrow_contract[c].npubkey_seller,
                            "dm", PlainText))
         ELSE NotPublished
    /\ UNCHANGED << escrow_contract, escrow_registration, escrow_token, recvCalls,
                    subs, coord_pc, otherSent, inv, validations, retries, faults >>

\* lines 140-146: Ok(()) for both trade modes.
DoYourTradeDuties(c) ==
    /\ pc[c] = "exchanged"
    /\ phase' = [ phase EXCEPT ![c] = 3 ]
    /\ pc' = [ pc EXCEPT ![c] = "done" ]
    /\ calls' = [ calls EXCEPT ![c]["do_your_trade_duties"] = @ + 1 ]
    /\ outcome' = [ outcome EXCEPT ![c]["do_your_trade_duties"] = "ok" ]
    /\ UNCHANGED << escrow_contract, escrow_registration, escrow_token, recvCalls,
                    recv, subs, coord_pc, contracts, otherSent, inv, validations,
                    wire, retries, faults >>

\* main.rs lines 41, 43, 45: `.await?` returns the error from main.
Abort(c) ==
    /\ pc[c] = "failed"
    /\ pc' = [ pc EXCEPT ![c] = "aborted" ]
    /\ UNCHANGED << phase, escrow_contract, escrow_registration, escrow_token,
                    recvCalls, recv, subs, coord_pc, contracts, otherSent, calls,
                    outcome, inv, validations, wire, retries,
                    faults >>

\* A driver with a retry policy: the operations take &self, so the phase
\* object a failed call was made on is still there and the call is repeated
\* on it, once the receive calls the client made have ended.
Retry(c) ==
    /\ pc[c] = "failed"
    /\ retries < MaxRetry
    /\ \A k \in 1..MaxRecv : recv[<< c, k >>].pc \in {"idle", "returned"}
    /\ retries' = retries + 1
    /\ pc' = [ pc EXCEPT ![c] = IF phase[c] = 0 THEN "init" ELSE "registered" ]
    /\ UNCHANGED << phase, escrow_contract, escrow_registration, escrow_token,
                    recvCalls, recv, subs, coord_pc, contracts, otherSent, calls,
                    outcome, inv, validations, wire, faults >>

(***************************************************************************)
(* The coordinator: NostrClient::send_escrow_registration.                 *)
(***************************************************************************)
\* The coordinator registers a trade once both traders' contracts arrived,
\* and answers the buyer first.
BothContractsArrived == contracts = {Npub_Buyer, Npub_Seller}
receivers == << TradeContract.npubkey_buyer, TradeContract.npubkey_seller >>

\* lines 73-77: one payload, serialized once, for both sends.
registration_json == RegistrationJson(EscrowRegistration)

\* Mutant: the error of the first send is dropped and the second send follows.
SendRegistrationFirst_IgnoreError ==
    /\ coord_pc = "wait"
    /\ BothContractsArrived
    /\ coord_pc' = "second"
    /\ \E ok \in BOOLEAN :
         IF ok
           THEN /\ Publish(Event(Npub_Coordinator, receivers[1], "dm", registration_json))
                /\ UNCHANGED faults
           ELSE /\ NotPublished
                /\ faults' = TRUE
    /\ UNCHANGED << clientVars, subs, otherSent >>

\* lines 79-81: send_private_msg(receivers.0, ..).await?
SendRegistrationFirst ==
    /\ coord_pc = "wait"
    /\ BothContractsArrived
    /\ \E ok \in BOOLEAN :
         IF ok
           THEN /\ Publish(Event(Npub_Coordinator, receivers[1], "dm", registration_json))
                /\ coord_pc' = "second"
                /\ UNCHANGED faults
           ELSE /\ NotPublished
                /\ coord_pc' = "failed_first"
                /\ faults' = TRUE
    /\ UNCHANGED << clientVars, subs, otherSent >>

\* lines 82-85: send_private_msg(receivers.1, ..).await?; Ok(())
SendRegistrationSecond ==
    /\ coord_pc = "second"
    /\ \E ok \in BOOLEAN :
         IF ok
           THEN /\ Publish(Event(Npub_Coordinator, receivers[2], "dm", registration_json))
                /\ coord_pc' = "done"
                /\ UNCHANGED faults
           ELSE /\ NotPublished
                /\ coord_pc' = "failed_second"
                /\ faults' = TRUE
    /\ UNCHANGED << clientVars, subs, otherSent >>

(***************************************************************************)
(* A third party addresses a gift wrap to the Seller.                      *)
(***************************************************************************)
OtherSend ==
    /\ otherSent < MaxOther
    /\ otherSent' = otherSent + 1
    /\ \E ev \in OtherEvents : Publish(ev)
    /\ faults' = TRUE
    /\ UNCHANGED << clientVars, subs, coord_pc >>

(***************************************************************************)
(* The timer of receive_escrow_message.                                    *)
(***************************************************************************)
\* A step of the trade other than a timer: while one is possible, a message
\* may still be on its way.
Progress ==
    \/ \E c \in TradeMode :
         \/ RegisterTrade(c) \/ RegisterTradeSend(c) \/ RegisterTradeJoin(c)
         \/ ExchangeBuyerMint(c) \/ BuyerSendToken(c)
         \/ ExchangeSellerReceive(c) \/ SellerValidate(c)
         \/ DoYourTradeDuties(c) \/ Abort(c)
    \/ \E t \in RecvIds :
         Subscribe(t) \/ Notifications(t) \/ RecvNotification(t) \/ Unsubscribe(t)
    \/ SendRegistrationFirst \/ SendRegistrationSecond

\* Mutant: the timer is re-armed; the loop goes on after the bound.
TimeoutElapsed_Rearm(t) ==
    /\ recv[t].pc = "loop"
    /\ Running(t)
    /\ UNCHANGED vars

\* Mutant: the timeout error is returned with `?` before the unsubscribe.
TimeoutElapsed_EarlyReturn(t) ==
    /\ recv[t].pc = "loop"
    /\ Running(t)
    /\ recv' = [ recv EXCEPT ![t].pc = "returned", ![t].q = << >>,
                             ![t].res = Result("timeout", NoEvent) ]
    /\ faults' = (faults \/ ENABLED Progress)
    /\ UNCHANGED << clientVars, subs, coord_pc, contracts, otherSent, wire >>

\* lines 57-60: timeout(Duration::from_secs(timeout_secs), loop_future) elapsed.
TimeoutElapsed(t) ==
    /\ recv[t].pc = "loop"
    /\ Running(t)
    /\ recv' = [ recv EXCEPT ![t].pc = "unsubscribe", ![t].q = << >>,
                             ![t].res = Result("timeout", NoEvent) ]
    /\ faults' = (faults \/ ENABLED Progress)
    /\ UNCHANGED << clientVars, subs, coord_pc, contracts, otherSent, wire >>

(***************************************************************************)
(* Specifications.                                                         *)
(***************************************************************************)
Next ==
    \/ \E c \in TradeMode : RegisterTrade(c)
    \/ \E c \in TradeMode : RegisterTradeSend(c)
    \/ \E c \in TradeMode : RegisterTradeJoin(c)
    \/ \E c \in TradeMode : ExchangeBuyerMint(c)
    \/ \E c \in TradeMode : BuyerSendToken(c)
    \/ \E c \in TradeMode : ExchangeSellerReceive(c)
    \/ \E c \in TradeMode : SellerValidate(c)
    \/ \E c \in TradeMode : DoYourTradeDuties(c)
    \/ \E c \in TradeMode : Abort(c)
    \/ \E t \in RecvIds : Subscribe(t)
    \/ \E t \in RecvIds : Notifications(t)
    \/ \E t \in RecvIds : RecvNotification(t)
    \/ \E t \in RecvIds : TimeoutElapsed(t)
    \/ \E t \in RecvIds : Unsubscribe(t)
    \/ \E t \in RecvIds : DropTask(t)
    \/ SendRegistrationFirst
    \/ SendRegistrationSecond
    \/ OtherSend

\* The trade as main.rs drives it: every operation once, an error ends it.
Spec == Init /\ [][Next]_vars

\* The two traders and the coordinator under a driver that repeats a failed
\* phase call (no third party).
NextRetry ==
    \/ \E c \in TradeMode : RegisterTrade(c)
    \/ \E c \in TradeMode : RegisterTradeSend(c)
    \/ \E c \in TradeMode : RegisterTradeJoin(c)
    \/ \E c \in TradeMode : ExchangeBuyerMint(c)
    \/ \E c \in TradeMode : BuyerSendToken(c)
    \/ \E c \in TradeMode : ExchangeSellerReceive(c)
    \/ \E c \in TradeMode : SellerValidate(c)
    \/ \E c \in TradeMode : DoYourTradeDuties(c)
    \/ \E c \in TradeMode : Abort(c)
    \/ \E c \in TradeMode : Retry(c)
    \/ \E t \in RecvIds : Subscribe(t)
    \/ \E t \in RecvIds : Notifications(t)
    \/ \E t \in RecvIds : RecvNotification(t)
    \/ \E t \in RecvIds : TimeoutElapsed(t)
    \/ \E t \in RecvIds : Unsubscribe(t)
    \/ \E t \in RecvIds : DropTask(t)
    \/ SendRegistrationFirst
    \/ SendRegistrationSecond

SpecRetry == Init /\ [][NextRetry]_vars

\* Every step of a receive call is scheduled: the runtime polls the task, the
\* timer of line 57 elapses, and a shutdown drops what is left.
RecvStep(t) ==
    \/ Subscribe(t) \/ Notifications(t) \/ RecvNotification(t)
    \/ TimeoutElapsed(t) \/ Unsubscribe(t) \/ DropTask(t)

FairRetry == SpecRetry /\ WF_vars(\E t \in RecvIds : RecvStep(t))

(***************************************************************************)
(* Properties.                                                             *)
(***************************************************************************)
Terminated(c) == pc[c] \in {"done", "failed", "aborted"}

\* C1: a Seller client holds the TokenExchanged phase only if its
\* exchange_trade_token call received a message and validate_escrow_token
\* succeeded on exactly that payload, checked against the client's own
\* contract and its own received registration; whenever a validation failed,
\* exchange_trade_token returned an error and no TokenExchanged phase exists.
C1_ValidatedBeforeTokenExchanged ==
    \A c \in TradeMode :
        trade_mode(c) = Seller =>
            /\ phase[c] >= 2 =>
                 /\ recv[LastCall(c)].res.kind = "ok"
                 /\ \E v \in validations :
                      /\ v.client = c
                      /\ v.message = recv[LastCall(c)].res.ev.content
                      /\ v.contract = escrow_contract[c]
                      /\ v.registration = escrow_registration[c]
                      /\ v.ok
            /\ \A v \in validations :
                 (v.client = c /\ ~v.ok) =>
                     /\ outcome[c]["exchange_trade_token"] = "err"
                     /\ phase[c] < 2

\* C1 witness: the Seller holds TokenExchanged after a successful validation.
C1_Witness ==
    /\ phase[Seller] = 2
    /\ \E v \in validations : v.client = Seller /\ v.ok

\* C2: the phases are traversed in the strict order Initialized, Registered,
\* TokenExchanged, DutiesFulfilled: a step creates at most the next phase,
\* register_trade starts on the Initialized phase only, exchange_trade_token
\* starts only after register_trade returned successfully, and
\* do_your_trade_duties only after exchange_trade_token returned successfully.
C2_StrictPhaseOrder ==
    [][ \A c \in TradeMode :
          /\ phase'[c] = phase[c] \/ phase'[c] = phase[c] + 1
          /\ calls'[c]["register_trade"] # calls[c]["register_trade"] =>
                 phase[c] = 0
          /\ calls'[c]["exchange_trade_token"] # calls[c]["exchange_trade_token"] =>
                 phase[c] = 1 /\ outcome[c]["register_trade"] = "ok"
          /\ calls'[c]["do_your_trade_duties"] # calls[c]["do_your_trade_duties"] =>
                 phase[c] = 2 /\ outcome[c]["exchange_trade_token"] = "ok" ]_vars

\* C2 witness: both clients went through all four phases.
C2_Witness == phase[Buyer] = 3 /\ phase[Seller] = 3

\* C3: when register_trade dispatches the contract its listener is already
\* subscribed, so a registration reply that the coordinator sends after the
\* contract message arrived reaches the listener and is not lost.
LostReply(c) ==
    /\ pc[c] = "reg_join"
    /\ recv[LastCall(c)].pc = "subscribe"
    /\ \E w \in wire :
         /\ w.ev.from = Npub_Coordinator
         /\ w.ev.to = public_key(c)
         /\ w.heard = {}

C3_ListenBeforeDispatch ==
    /\ [][ \A c \in TradeMode :
             (pc[c] = "reg_send" /\ pc'[c] = "reg_join") => Subscribed(LastCall(c)) ]_vars
    /\ [](\A c \in TradeMode : ~LostReply(c))

\* C3, the reply alone: no registration reply is lost to a listener that has
\* not subscribed yet.
C3_ReplyNotLost == \A c \in TradeMode : ~LostReply(c)

\* C4: with no failed send, mint or subscription, no third party and no timer
\* that elapses while the trade can still move, the token the Buyer sends is
\* heard by the Seller's receive of exchange_trade_token (it is not sent
\* before the Seller listens for it), and a trade that has come to its end has
\* both clients in DutiesFulfilled with the Buyer's token validated by the Seller.
TokenCall(c) == << c, 2 >>

C4_TradeCompletes ==
    ~faults =>
        /\ \A w \in wire :
             (w.ev.from = Npub_Buyer /\ w.ev.content.kind = "Token") =>
                 TokenCall(Seller) \in w.heard
        /\ (\A c \in TradeMode : Terminated(c)) =>
             /\ \A c \in TradeMode : phase[c] = 3
             /\ \E v \in validations :
                  v.client = Seller /\ v.ok /\ v.message = escrow_token[Buyer]

\* C5: a failed transition does not advance: while or after register_trade
\* failed (failed send, timeout, unparseable reply) the client holds no
\* Registered phase and never starts exchange_trade_token; after
\* exchange_trade_token failed it holds no TokenExchanged phase and never
\* starts do_your_trade_duties; the driver stops at the error.
RegisterCall(c) == << c, 1 >>
ReplyUnusable(c) ==
    /\ recv[RegisterCall(c)].pc = "returned"
    /\ \/ recv[RegisterCall(c)].res.kind # "ok"
       \/ recv[RegisterCall(c)].res.ev.content.kind # "EscrowRegistration"

C5_FailedTransitionDoesNotAdvance ==
    \A c \in TradeMode :
        /\ ReplyUnusable(c) => phase[c] = 0
        /\ outcome[c]["register_trade"] = "err" =>
             /\ phase[c] = 0
             /\ pc[c] \in {"failed", "aborted"}
             /\ calls[c]["exchange_trade_token"] = 0
             /\ calls[c]["do_your_trade_duties"] = 0
        /\ outcome[c]["exchange_trade_token"] = "err" =>
             /\ phase[c] = 1
             /\ pc[c] \in {"failed", "aborted"}
             /\ calls[c]["do_your_trade_duties"] = 0

\* C5 witness: one client failed in register_trade on an unusable reply, the
\* other failed in exchange_trade_token; both trade flows were aborted.
C5_Witness ==
    \E c, d \in TradeMode :
        /\ pc[c] = "aborted" /\ ReplyUnusable(c)
        /\ pc[d] = "aborted" /\ outcome[d]["exchange_trade_token"] = "err"

\* C6: a call of receive_escrow_message that has returned holds no
\* subscription: the one it created was released before it returned, on the
\* message, timeout and unwrap-error paths alike.
C6_ReturnedCallReleased ==
    \A t \in RecvIds : recv[t].pc = "returned" => t \notin subs[Owner(t)]

\* C6 witness: three subscribed calls returned, one with a message, one on
\* the timeout and one on an unwrap error.
C6_Witness ==
    \E t1, t2, t3 \in RecvIds :
        /\ recv[t1].pc = "returned" /\ recv[t1].res.kind = "ok"
        /\ recv[t2].pc = "returned" /\ recv[t2].res.kind = "timeout"
        /\ recv[t3].pc = "returned" /\ recv[t3].res.kind = "unwrap_err"

\* C7: a receive call that waits for a message it does not get returns (on
\* the timeout) and never blocks forever: from some point on no call is
\* pending; once a call has returned on the timeout, a later call of the same
\* client that listens holds a subscription of its own and the earlier one is
\* gone.
Pending(t) == recv[t].pc \in {"subscribe", "notifications", "loop", "unsubscribe"}

C7_TimeoutThenFreshSubscription ==
    /\ <>[](\A t \in RecvIds : ~Pending(t))
    /\ [](\A t, u \in RecvIds :
            ( /\ Owner(t) = Owner(u) /\ t[2] < u[2]
              /\ recv[t].pc = "returned" /\ recv[t].res.kind = "timeout"
              /\ recv[u].pc = "loop" ) =>
                (u \in subs[Owner(u)] /\ t \notin subs[Owner(t)]))

\* C7 witness: a call returned on the timeout, and the next call of the same
\* client returned a message that arrived while only the later call listened.
C7_Witness ==
    \E c \in TradeMode, k \in 1..(MaxRecv - 1) :
        /\ recv[<< c, k >>].pc = "returned"
        /\ recv[<< c, k >>].res.kind = "timeout"
        /\ recv[<< c, k + 1 >>].pc = "returned"
        /\ recv[<< c, k + 1 >>].res.kind = "ok"
        /\ \E w \in wire :
             /\ w.ev = recv[<< c, k + 1 >>].res.ev
             /\ << c, k + 1 >> \in w.heard
             /\ << c, k >> \notin w.heard

\* C8: in the Seller branch of exchange_trade_token only a message sent by
\* the contract's buyer is returned by the receive and handed to
\* validate_escrow_token.
C8_OnlyBuyerMessages ==
    /\ \A v \in validations :
         v.sender = escrow_contract[v.client].npubkey_buyer
    /\ \A c \in TradeMode :
         ( /\ trade_mode(c) = Seller
           /\ calls[c]["exchange_trade_token"] > 0
           /\ recv[LastCall(c)].res.kind = "ok" ) =>
               recv[LastCall(c)].res.ev.from = escrow_contract[c].npubkey_buyer

\* C9: each operation is invoked at most once on its phase object.
C9_PhaseUsedOnce ==
    \A c \in TradeMode : \A o \in Ops : calls[c][o] <= 1

\* C10: within one invocation register_trade sends the contract at most once
\* and makes at most one receive, and exchange_trade_token mints at most one
\* token and sends at most one token message, or makes at most one receive
\* and one validation, also when a send or a receive failed.
C10_NoRetryInsideAnOperation ==
    \A c \in TradeMode :
        /\ inv[c].sends <= 1
        /\ inv[c].receives <= 1
        /\ inv[c].mints <= 1
        /\ inv[c].validates <= 1
        /\ outcome[c]["exchange_trade_token"] = "none" =>
               inv[c].mints = 0 /\ inv[c].validates = 0
        /\ trade_mode(c) = Buyer => inv[c].validates = 0
        /\ trade_mode(c) = Seller => inv[c].mints = 0

\* C10 witness: the contract send of one client failed after one attempt, and
\* the token receive of the Seller failed after one receive.
C10_Witness ==
    /\ outcome[Buyer]["register_trade"] = "err"
    /\ inv[Buyer].sends = 1
    /\ outcome[Seller]["exchange_trade_token"] = "err"
    /\ inv[Seller].receives = 1
    /\ recv[LastCall(Seller)].res.kind = "timeout"

\* C11: when register_trade has returned, with the Registered phase or with
\* an error (a failed send of the contract included), the listener it spawned
\* has been joined (its receive call has returned) and the listener's
\* subscription is not active.
C11_ListenerJoinedOnReturn ==
    \A c \in TradeMode :
        outcome[c]["register_trade"] \in {"ok", "err"} =>
            /\ recv[RegisterCall(c)].pc = "returned"
            /\ RegisterCall(c) \notin subs[c]

\* Messages a client sent other than its contract to the coordinator.
TokenSends(c) ==
    { w \in wire : w.ev.from = public_key(c) /\ w.ev.content.kind # "TradeContract" }

\* C12: only a Buyer client mints and sends a token; the token message is
\* sent only after create_escrow_token succeeded on the client's own contract
\* and registration, goes to the contract's seller and carries the minted
\* payload unmodified; when minting failed nothing is sent and there is no
\* TokenExchanged phase; a Buyer holds TokenExchanged only after the send; a
\* Seller client never mints or sends a token.
C12_OnlyBuyerSendsMintedToken ==
    \A c \in TradeMode :
        /\ \A w \in TokenSends(c) :
             /\ trade_mode(c) = Buyer
             /\ phase[c] >= 1
             /\ escrow_token[c] = create_escrow_token(escrow_contract[c],
                                                      escrow_registration[c])
             /\ w.ev.content = escrow_token[c]
             /\ w.ev.to = escrow_contract[c].npubkey_seller
             /\ w.ev.wrap = "dm"
        /\ trade_mode(c) = Seller =>
             /\ inv[c].mints = 0
             /\ escrow_token[c] = NoContent
             /\ TokenSends(c) = {}
        /\ trade_mode(c) = Buyer =>
             /\ (outcome[c]["exchange_trade_token"] = "err" /\ escrow_token[c] = NoContent) =>
                    (TokenSends(c) = {} /\ phase[c] < 2)
             /\ phase[c] >= 2 => Cardinality(TokenSends(c)) = 1

\* C12 witness: the Buyer holds TokenExchanged and its minted token went to
\* the seller, while the Seller is in its own exchange_trade_token.
C12_Witness ==
    /\ phase[Buyer] = 2
    /\ \E w \in TokenSends(Buyer) :
         w.ev = Event(Npub_Buyer, Npub_Seller, "dm",
                      create_escrow_token(TradeContract, EscrowRegistration))
    /\ pc[Seller] = "tok_recv"

\* C13: a receive call returns either the content of a private direct
\* message that arrived while it listened, or on the timeout; an inbound
\* event that is no such message (a rumor of another kind, a gift wrap that
\* cannot be unwrapped) never ends the call.
C13_ReturnsOnMessageOrTimeoutOnly ==
    \A t \in RecvIds :
        (recv[t].pc \in {"unsubscribe", "returned"} /\ Subscribed(t)) =>
            \/ recv[t].res.kind = "timeout"
            \/ /\ recv[t].res.kind = "ok"
               /\ recv[t].res.ev.wrap = "dm"
               /\ \E w \in wire : w.ev = recv[t].res.ev /\ t \in w.heard

\* What the coordinator has sent.
RegistrationSends == { w.ev : w \in { x \in wire : x.ev.from = Npub_Coordinator } }
FirstRegistration == Event(Npub_Coordinator, receivers[1], "dm", registration_json)
SecondRegistration == Event(Npub_Coordinator, receivers[2], "dm", registration_json)

\* C14: send_escrow_registration makes two separate sends of the identical
\* payload, first to receivers.0, then to receivers.1: before it runs nothing
\* is sent; between the sends exactly the first message; when it returned Ok
\* exactly these two; when the first send failed it returned the error and
\* the second is never sent; when the second failed only the first was sent.
C14_TwoSendsSamePayloadInOrder ==
    /\ [] /\ coord_pc \in {"wait", "failed_first"} => RegistrationSends = {}
          /\ coord_pc \in {"second", "failed_second"} =>
                 RegistrationSends = {FirstRegistration}
          /\ coord_pc = "done" =>
                 RegistrationSends = {FirstRegistration, SecondRegistration}
          /\ FirstRegistration.content = SecondRegistration.content
          /\ FirstRegistration.to # SecondRegistration.to
    /\ [][ /\ coord_pc = "failed_first" => coord_pc' = "failed_first"
           /\ SecondRegistration \in RegistrationSends' =>
                  FirstRegistration \in RegistrationSends ]_vars

\* C14 witness: send_escrow_registration returned Ok after both sends.
C14_Witness ==
    /\ coord_pc = "done"
    /\ RegistrationSends = {FirstRegistration, SecondRegistration}

\* C15: do_your_trade_duties is a placeholder without effect: for both trade
\* modes it is offered on every TokenExchanged phase and returns Ok, no
\* message is sent or received by it, no receive call or subscription is
\* made, and contract, registration and token are left as they were.
C15_DutiesWithoutEffect ==
    /\ [](\A c \in TradeMode :
            /\ pc[c] = "exchanged" => ENABLED DoYourTradeDuties(c)
            /\ outcome[c]["do_your_trade_duties"] \in {"none", "ok"})
    /\ [][ \A c \in TradeMode :
             calls'[c]["do_your_trade_duties"] # calls[c]["do_your_trade_duties"] =>
                 /\ outcome'[c]["do_your_trade_duties"] = "ok"
                 /\ phase[c] = 2 /\ phase'[c] = 3
                 /\ wire' = wire
                 /\ recv' = recv
                 /\ recvCalls' = recvCalls
                 /\ subs' = subs
                 /\ inv' = inv
                 /\ validations' = validations
                 /\ escrow_contract' = escrow_contract
                 /\ escrow_registration' = escrow_registration
                 /\ escrow_token' = escrow_token ]_vars

\* C15 witness: the Buyer's duties returned Ok while the Seller's receive of
\* the token was still listening, and the token the Buyer minted is unchanged.
C15_Witness ==
    /\ phase[Buyer] = 3
    /\ outcome[Buyer]["do_your_trade_duties"] = "ok"
    /\ escrow_token[Buyer] = create_escrow_token(TradeContract, EscrowRegistration)
    /\ recv[TokenCall(Seller)].pc = "loop"

\* The token a client exchanged: the one the Buyer sent, the one the Seller
\* received and validated.
ExchangedToken(c) ==
    IF trade_mode(c) = Buyer THEN escrow_token[c] ELSE recv[LastCall(c)].res.ev.content

\* C16: a TokenExchanged phase holds the token that was exchanged, the sent
\* one for a Buyer and the received one for a Seller.
C16_PhaseRecordsToken ==
    \A c \in TradeMode :
        phase[c] >= 2 =>
            /\ "escrow_token" \in DOMAIN TokenExchangedEscrowClient(c)
            /\ TokenExchangedEscrowClient(c).escrow_token = ExchangedToken(c)

\* C17: in an honest trade (no failed send, mint or subscription, no third
\* party, no timer that elapses early) the message the listener of
\* register_trade returns is the registration the coordinator sent, never the
\* token message of the Buyer, and register_trade does not fail on it.
C17_RegistrationReplyIsRegistration ==
    ~faults =>
        \A c \in TradeMode :
            recv[RegisterCall(c)].res.kind = "ok" =>
                /\ recv[RegisterCall(c)].res.ev.from = Npub_Coordinator
                /\ recv[RegisterCall(c)].res.ev.content = registration_json
                /\ RegistrationOf(recv[RegisterCall(c)].res).ok

\* C18: whenever both clients of the trade hold a Registered phase they hold
\* the same registration (escrow id, coordinator escrow key, start time), the
\* one the coordinator issued, and a registration a client holds never changes.
C18_RegistrationAgreement ==
    /\ []((phase[Buyer] >= 1 /\ phase[Seller] >= 1) =>
             /\ escrow_registration[Buyer] = escrow_registration[Seller]
             /\ escrow_registration[Buyer] = EscrowRegistration)
    /\ [][ \A c \in TradeMode :
             phase[c] >= 1 => escrow_registration'[c] = escrow_registration[c] ]_vars

=============================================================================
